---------------------------- MODULE Spec2Model ----------------------------
(***************************************************************************)
(* Buffer pool manager (buffer_pool_manager_instance.cpp) and its LRU-K    *)
(* replacer (lru_k_replacer.cpp).                                          *)
(*                                                                         *)
(* Every manager operation holds latch_ from its first to its last         *)
(* statement, so each is one atomic action.  The replacer is a record that *)
(* the manager's actions transform through the operators Evict,            *)
(* RecordAccess, SetEvictable and Remove; the same operators are the       *)
(* actions of SpecReplacer, which drives the replacer alone.               *)
(***************************************************************************)
EXTENDS Integers, Sequences, FiniteSets, TLC

\* ------------------------------------------------------------------ bounds
MaxPoolSize == 2
MaxK == 2
MaxPageId == 2
MaxTimestamp == 4
MaxPin == 2
MaxData == 1
MaxThreads == 2

\* --------------------------------------------------------------- constants
\* common/config.h (not part of the sources at hand)
INVALID_PAGE_ID == -1
INVALID_FRAME_ID == -1
\* std::numeric_limits<size_t>::max(); TLC integers are 32 bits wide, the
\* model only needs a value above every timestamp and every finite distance
SIZE_MAX == 2147483647

PoolSizes == 1..MaxPoolSize
KValues == 1..MaxK
DataValues == 0..MaxData
\* page ids a caller may pass: the sentinel, minted ids and ids not yet minted
PageIds == {INVALID_PAGE_ID} \cup (0..MaxPageId)
ZeroData == 0
Threads == 1..MaxThreads

VARIABLES
    pool_size_,      \* constructor argument pool_size
    pages_,          \* frame id -> [page_id_, pin_count_, is_dirty_, data_]
    page_table_,     \* std::unordered_map<page_id_t, frame_id_t>
    free_list_,      \* std::list<frame_id_t>
    next_page_id_,   \* the page id allocator
    replacer_,       \* [replacer_size_, k_, curr_size_, current_timestamp_, frame_table_]
    disk,            \* the disk collaborator: page id -> contents
    aborted,         \* a BUSTUB_ASSERT failed and ended the process
    last,            \* the last operation: its arguments, result and disk writes
    pins,            \* page id -> returned handles minus successful unpins
    lostDirty,       \* frame id -> its previous page left the frame dirty and unwritten
    saved,           \* page id -> bytes of the NewPage/write/unpin(dirty)/flush round trip
    minted,          \* the page ids NewPage has returned, in order
    latch_,          \* BufferPoolManagerInstance::latch_: the thread that holds it, or 0
    replacer_latch_, \* LRUKReplacer::latch_: the thread that holds it, or 0
    threads,         \* thread id -> where the thread is in its operation, and its locals
    watch            \* which of lostDirty and saved this run keeps up to date

vars == <<pool_size_, pages_, page_table_, free_list_, next_page_id_, replacer_,
          disk, aborted, last, pins, lostDirty, saved, minted, latch_, replacer_latch_,
          threads, watch>>

progVars == <<pool_size_, pages_, page_table_, free_list_, next_page_id_, replacer_,
              disk, aborted>>

Frames == 0..(pool_size_ - 1)

\* ------------------------------------------------------------- the latches
\* a mutant of LatchFree: lock_guard that does not wait for the mutex
LatchFreeMutant(l) == TRUE

\* std::lock_guard<std::mutex> returns from its constructor once the mutex is free
LatchFree(l) == l = 0

\* a mutant of Unlock: the mutex stays with its holder
UnlockNot(t) == t

\* ~lock_guard at the operation's return: the holder t gives the mutex up
Unlock(t) == 0

\* a thread between operations
AtCall == [pc |-> "idle", op |-> "none", page_id |-> INVALID_PAGE_ID,
           frame_id |-> INVALID_FRAME_ID, path |-> "none", writes |-> <<>>, snap |-> <<>>]

\* one client alone: each latch is taken and released within the step
Alone == UNCHANGED <<latch_, replacer_latch_, threads>>

\* ------------------------------------------------------- container helpers
\* std::unordered_map::erase(key)
MapErase(m, key) == [x \in (DOMAIN m) \ {key} |-> m[x]]

\* std::unordered_map::emplace(key, v): no effect when the key is present
MapEmplace(m, key, v) ==
    IF key \in DOMAIN m THEN m
    ELSE [x \in (DOMAIN m) \cup {key} |-> IF x = key THEN v ELSE m[x]]

\* the iteration orders an unordered_map with key set S may present
IterationOrders(S) ==
    {o \in [1..Cardinality(S) -> S] : \A i, j \in 1..Cardinality(S) : o[i] = o[j] => i = j}

\* a mutant of SizeDec that leaves the count
SizeKeep(x) == x

\* size_t arithmetic on curr_size_
SizeInc(x) == IF x = SIZE_MAX THEN 0 ELSE x + 1
SizeDec(x) == IF x = 0 THEN SIZE_MAX ELSE x - 1

\* ------------------------------------------------------------ the replacer
\* FrameInfo{} as unordered_map::operator[] value-initialises it
NewFrameInfo == [timestamp |-> <<>>, evictable |-> FALSE]

\* frame_table_[frame_id]: the record, inserted first when absent
TableAt(ft, frame_id) == MapEmplace(ft, frame_id, NewFrameInfo)

LRUKReplacer(num_frames, k) ==
    [replacer_size_ |-> num_frames, k_ |-> k, curr_size_ |-> 0,
     current_timestamp_ |-> 0, frame_table_ |-> << >>]

\* the backward k-distance d of lines 31-36
Distance(r, info) ==
    IF Len(info.timestamp) >= r.k_
    THEN r.current_timestamp_ - info.timestamp[Len(info.timestamp) - (r.k_ - 1)]
    ELSE SIZE_MAX

\* info.timestamp.front(); on an empty list the read is undefined and yields
\* whatever value g the build leaves there
Front(info, g) == IF info.timestamp = <<>> THEN g ELSE info.timestamp[1]

\* the selection test of line 38 with strict comparisons replaced: a mutant
EvictTakesMutant(front, d, acc) ==
    ((front > acc.t) /\ d = acc.max_d) \/ d > acc.max_d

\* line 38
EvictTakes(front, d, acc) ==
    ((front < acc.t) /\ d = acc.max_d) \/ d > acc.max_d

\* line 27 skipped: a mutant that also considers non-evictable frames
EvictSkipsMutant(info) == FALSE

\* line 27
EvictSkips(info) == ~info.evictable

\* the loop of lines 26-43 over the entries in iteration order `order`
RECURSIVE EvictScan(_, _, _, _, _)
EvictScan(r, order, g, i, acc) ==
    IF i > Len(order) THEN acc
    ELSE LET id == order[i]
             info == r.frame_table_[id]
         IN  IF EvictSkips(info) THEN EvictScan(r, order, g, i + 1, acc)
             ELSE LET d == Distance(r, info)
                      front == Front(info, g[id])
                  IN  IF EvictTakes(front, d, acc)
                      THEN EvictScan(r, order, g, i + 1, [max_d |-> d, t |-> front, s |-> id])
                      ELSE EvictScan(r, order, g, i + 1, acc)

\* Evict: [ok, frame_id, r]
Evict(r, order, g) ==
    LET acc == EvictScan(r, order, g, 1, [max_d |-> 0, t |-> SIZE_MAX, s |-> INVALID_FRAME_ID])
    IN  IF acc.s = INVALID_FRAME_ID
        THEN [ok |-> FALSE, frame_id |-> INVALID_FRAME_ID, r |-> r]
        ELSE [ok |-> TRUE, frame_id |-> acc.s,
              r |-> [r EXCEPT !.curr_size_ = SizeDec(r.curr_size_),
                              !.frame_table_ = MapErase(r.frame_table_, acc.s)]]

\* the iteration orders and the values of undefined reads Evict may meet
EvictOrders(r) == IterationOrders(DOMAIN r.frame_table_)
Garbage == (0..MaxTimestamp) \cup {SIZE_MAX}
EvictGarbage(r) ==
    LET empties == {f \in DOMAIN r.frame_table_ :
                      r.frame_table_[f].evictable /\ r.frame_table_[f].timestamp = <<>>}
    IN  {g \in [DOMAIN r.frame_table_ -> Garbage] :
           \A f \in (DOMAIN r.frame_table_) \ empties : g[f] = 0}

\* a mutant of RecordAccess that does not advance the clock
RecordAccessNoTick(r, frame_id) ==
    LET ft == TableAt(r.frame_table_, frame_id)
        pushed == Append(ft[frame_id].timestamp, r.current_timestamp_)
        kept == IF Len(pushed) > r.k_ THEN Tail(pushed) ELSE pushed
    IN  [r EXCEPT !.frame_table_ = [ft EXCEPT ![frame_id].timestamp = kept]]

RecordAccess(r, frame_id) ==
    LET ft == TableAt(r.frame_table_, frame_id)
        pushed == Append(ft[frame_id].timestamp, r.current_timestamp_)
        kept == IF Len(pushed) > r.k_ THEN Tail(pushed) ELSE pushed
    IN  [r EXCEPT !.frame_table_ = [ft EXCEPT ![frame_id].timestamp = kept],
                  !.current_timestamp_ = r.current_timestamp_ + 1]

SetEvictable(r, frame_id, set_evictable) ==
    LET ft == TableAt(r.frame_table_, frame_id)
    IN  IF ft[frame_id].evictable # set_evictable
        THEN [r EXCEPT !.frame_table_ = [ft EXCEPT ![frame_id].evictable = set_evictable],
                       !.curr_size_ = IF set_evictable THEN SizeInc(r.curr_size_)
                                       ELSE SizeDec(r.curr_size_)]
        ELSE [r EXCEPT !.frame_table_ = ft]

\* the two BUSTUB_ASSERTs of Remove hold for frame_id
RemoveAsserts(r, frame_id) ==
    /\ frame_id < r.replacer_size_
    /\ frame_id \in DOMAIN r.frame_table_ => r.frame_table_[frame_id].evictable

\* a mutant of Remove that keeps the record
RemoveKeeps(r, frame_id) == r

\* Remove, past its assertions (or in a build that compiles them out)
Remove(r, frame_id) ==
    IF frame_id \in DOMAIN r.frame_table_
    THEN [r EXCEPT !.curr_size_ = SizeDec(r.curr_size_),
                   !.frame_table_ = MapErase(r.frame_table_, frame_id)]
    ELSE r

Size(r) == r.curr_size_


\* -------------------------------------------------------- the disk manager
\* DiskManager::WritePage(page_id, data): [content, log] -> [content, log]
WritePage(d, page_id, data) ==
    [content |-> [d.content EXCEPT ![page_id] = data],
     log |-> Append(d.log, <<page_id, data>>)]

\* DiskManager::ReadPage(page_id, buffer): the contents it fills the buffer with
ReadPage(d, page_id) == d.content[page_id]

\* the disk as an operation finds it, with no write issued yet
Disk == [content |-> disk, log |-> <<>>]

\* ------------------------------------------------------------ frames/pages
\* Page::Page(): no page, unpinned, clean, zeroed
NewPage == [page_id_ |-> INVALID_PAGE_ID, pin_count_ |-> 0, is_dirty_ |-> FALSE,
            data_ |-> ZeroData]

\* Page::ResetMemory()
ResetMemory(p) == [p EXCEPT !.data_ = ZeroData]

\* ------------------------------------------------------- the observer state
NoOp == [op |-> "none", page_id |-> INVALID_PAGE_ID, is_dirty |-> FALSE, ok |-> FALSE,
         path |-> "none", frame_id |-> INVALID_FRAME_ID, victim |-> NewPage,
         writes |-> <<>>]

Wrote(writes, page_id, data) == \E i \in 1..Len(writes) : writes[i] = <<page_id, data>>

\* handles returned for a page since it became resident, minus successful unpins
PinsNext(l) ==
    LET gone == IF l.path = "evict" \/ (l.op = "DeletePage" /\ l.path = "deleted")
                THEN [pins EXCEPT ![l.victim.page_id_] = 0] ELSE pins
    IN  CASE l.op \in {"NewPage", "FetchPage"} /\ l.ok /\ l.path = "hit" ->
                [gone EXCEPT ![l.page_id] = @ + 1]
          [] l.op \in {"NewPage", "FetchPage"} /\ l.ok /\ l.path # "hit" ->
                [gone EXCEPT ![l.page_id] = 1]
          [] l.op = "UnpinPage" /\ l.ok -> [gone EXCEPT ![l.page_id] = @ - 1]
          [] OTHER -> gone

\* a frame's page left it dirty without a WritePage of its contents in that step
LostDirtyNext(pre, post, writes) ==
    [f \in DOMAIN pre |->
        IF pre[f].page_id_ # INVALID_PAGE_ID /\ post[f].page_id_ # pre[f].page_id_
        THEN pre[f].is_dirty_ /\ ~Wrote(writes, pre[f].page_id_, pre[f].data_)
        ELSE lostDirty[f]]

NoTrip == [stage |-> "none", bytes |-> ZeroData]

\* the round trip of each page: NewPage ("new"), the client's write of bytes B
\* ("written"), UnpinPage(p, true) ("unpinned"), FlushPage(p) ("flushed"), then
\* any operations that leave p's bytes alone ("kept"), among them p's eviction
\* ("evicted") and the FetchPage(p) that brings it back ("fetched")
SavedNext(l, post) ==
    LET v == l.victim.page_id_
        out == IF l.path = "evict"
               THEN [saved EXCEPT ![v] = IF @.stage \in {"flushed", "kept", "fetched"}
                                         THEN [@ EXCEPT !.stage = "evicted"]
                                         ELSE IF @.stage = "evicted" THEN @ ELSE NoTrip]
               ELSE saved
        Keep(t) == IF t.stage \in {"flushed", "kept", "fetched"}
                   THEN [t EXCEPT !.stage = "kept"] ELSE NoTrip
    IN  CASE l.op = "NewPage" /\ l.ok ->
                [out EXCEPT ![l.page_id] = [stage |-> "new", bytes |-> ZeroData]]
          [] l.op = "Write" ->
                [out EXCEPT ![l.page_id] =
                    IF @.stage \in {"new", "written"}
                    THEN [stage |-> "written", bytes |-> post[l.frame_id].data_]
                    ELSE NoTrip]
          [] l.op = "UnpinPage" /\ l.ok ->
                [out EXCEPT ![l.page_id] =
                    IF @.stage = "written" /\ l.is_dirty
                    THEN [@ EXCEPT !.stage = "unpinned"] ELSE Keep(@)]
          [] l.op = "FlushPage" /\ l.ok ->
                [out EXCEPT ![l.page_id] =
                    IF @.stage = "unpinned" THEN [@ EXCEPT !.stage = "flushed"] ELSE Keep(@)]
          [] l.op = "FlushAllPages" ->
                [q \in DOMAIN out |-> IF q \in DOMAIN page_table_ THEN Keep(out[q]) ELSE out[q]]
          [] l.op = "FetchPage" /\ l.ok ->
                [out EXCEPT ![l.page_id] =
                    IF @.stage = "evicted" /\ l.path # "hit"
                    THEN [@ EXCEPT !.stage = "fetched"] ELSE Keep(@)]
          [] l.op = "DeletePage" /\ l.path = "deleted" -> [out EXCEPT ![l.page_id] = NoTrip]
          [] OTHER -> out

\* a run that watches the pages' bytes records less of each operation
Recorded(l) ==
    IF watch = {} THEN l
    ELSE IF "lostDirty" \in watch /\ l.ok /\ l.path # "absent"
    THEN [NoOp EXCEPT !.path = l.path, !.writes = l.writes]
    ELSE NoOp

Observe(l) ==
    /\ last' = Recorded(l)
    /\ pins' = PinsNext(l)
    /\ lostDirty' = IF "lostDirty" \in watch THEN LostDirtyNext(pages_, pages_', l.writes)
                    ELSE lostDirty
    /\ saved' = IF "saved" \in watch THEN SavedNext(l, pages_') ELSE saved
    /\ minted' = IF l.op = "NewPage" /\ l.ok THEN Append(minted, l.page_id) ELSE minted
    /\ UNCHANGED watch

\* ------------------------------------------------------------- the manager
Constructed ==
    /\ pool_size_ \in PoolSizes
    /\ pages_ = [f \in Frames |-> NewPage]
    /\ page_table_ = << >>
    /\ free_list_ = [i \in 1..pool_size_ |-> i - 1]
    /\ next_page_id_ = 0
    /\ \E k \in KValues : replacer_ = LRUKReplacer(pool_size_, k)
    /\ disk = [p \in PageIds |-> ZeroData]
    /\ aborted = FALSE
    /\ last = NoOp
    /\ pins = [p \in PageIds |-> 0]
    /\ lostDirty = [f \in Frames |-> FALSE]
    /\ saved = [p \in PageIds |-> NoTrip]
    /\ minted = <<>>
    /\ latch_ = 0
    /\ replacer_latch_ = 0
    /\ threads = [t \in Threads |-> AtCall]

\* a mutant of AllocatePage that does not advance the allocator
AllocatePageAgain(next) == [page_id |-> next, next_page_id_ |-> next]

\* AllocatePage: [page_id, next_page_id_]
AllocatePage(next) == [page_id |-> next, next_page_id_ |-> next + 1]

\* a mutant of WriteBack that writes the victim whether dirty or not
WriteBackAlways(d, p) == WritePage(d, p.page_id_, p.data_)

\* a mutant of WriteBack that never writes the victim
WriteBackNever(d, p) == d

\* lines 38-40 of NewPgImp, 82-84 of FetchPgImp
WriteBack(d, p) == IF p.is_dirty_ THEN WritePage(d, p.page_id_, p.data_) ELSE d

\* a mutant of EraseVictim that leaves the victim's page table entry
EraseVictimNot(table, p) == table

\* line 41 of NewPgImp, 85 of FetchPgImp
EraseVictim(table, p) == MapErase(table, p.page_id_)

\* a mutant of InitNewPage that pins the new page twice
InitNewPageTwice(p, page_id) ==
    ResetMemory([p EXCEPT !.is_dirty_ = FALSE, !.pin_count_ = 2, !.page_id_ = page_id])

\* lines 47-50 of NewPgImp
InitNewPage(p, page_id) ==
    ResetMemory([p EXCEPT !.is_dirty_ = FALSE, !.pin_count_ = 1, !.page_id_ = page_id])

\* lines 46-54 of NewPgImp, on frame frame_id taken from the free list or evicted
NewPgInstall(frame_id, free, table, rep, d, path, victim) ==
    LET a == AllocatePage(next_page_id_)
    IN  /\ a.page_id <= MaxPageId
        /\ rep.current_timestamp_ < MaxTimestamp
        /\ next_page_id_' = a.next_page_id_
        /\ pages_' = [pages_ EXCEPT ![frame_id] = InitNewPage(@, a.page_id)]
        /\ free_list_' = free
        /\ page_table_' = MapEmplace(table, a.page_id, frame_id)
        /\ replacer_' = SetEvictable(RecordAccess(rep, frame_id), frame_id, FALSE)
        /\ disk' = d.content
        /\ UNCHANGED <<pool_size_, aborted>>
        /\ Observe([op |-> "NewPage", page_id |-> a.page_id, is_dirty |-> FALSE, ok |-> TRUE,
                    path |-> path, frame_id |-> frame_id, victim |-> victim,
                    writes |-> d.log])

NewPgImp ==
    /\ ~aborted
    /\ IF free_list_ # <<>>
       THEN NewPgInstall(Head(free_list_), Tail(free_list_), page_table_, replacer_,
                         Disk, "free", NewPage)
       ELSE \E order \in EvictOrders(replacer_), g \in EvictGarbage(replacer_) :
              LET e == Evict(replacer_, order, g)
              IN  IF e.ok
                  THEN LET p == pages_[e.frame_id]
                       IN  NewPgInstall(e.frame_id, free_list_, EraseVictim(page_table_, p),
                                        e.r, WriteBack(Disk, p), "evict", p)
                  ELSE /\ UNCHANGED progVars
                       /\ Observe([NoOp EXCEPT !.op = "NewPage", !.path = "null"])

\* a mutant of InitFetchedPage that keeps the bytes the frame held
InitFetchedPageStale(p, page_id, d) ==
    [p EXCEPT !.is_dirty_ = FALSE, !.page_id_ = page_id, !.pin_count_ = 1]

\* lines 91-95 of FetchPgImp
InitFetchedPage(p, page_id, d) ==
    LET p0 == [p EXCEPT !.is_dirty_ = FALSE, !.page_id_ = page_id, !.pin_count_ = 1]
    IN  [p0 EXCEPT !.data_ = ReadPage(d, p0.page_id_)]

\* lines 91-98 of FetchPgImp, on frame frame_id taken from the free list or evicted
FetchPgInstall(page_id, frame_id, free, table, rep, d, path, victim) ==
    LET p == InitFetchedPage(pages_[frame_id], page_id, d)
    IN  /\ rep.current_timestamp_ < MaxTimestamp
        /\ pages_' = [pages_ EXCEPT ![frame_id] = p]
        /\ free_list_' = free
        /\ page_table_' = MapEmplace(table, p.page_id_, frame_id)
        /\ replacer_' = SetEvictable(RecordAccess(rep, frame_id), frame_id, FALSE)
        /\ disk' = d.content
        /\ UNCHANGED <<pool_size_, next_page_id_, aborted>>
        /\ Observe([op |-> "FetchPage", page_id |-> page_id, is_dirty |-> FALSE, ok |-> TRUE,
                    path |-> path, frame_id |-> frame_id, victim |-> victim,
                    writes |-> d.log])

\* a mutant of PinAgain that leaves the pin count
PinAgainNot(p) == p

\* line 69 of FetchPgImp
PinAgain(p) == [p EXCEPT !.pin_count_ = @ + 1]

\* a caller fetches ids the allocator has minted: the disk holds no other page
FetchPgImp(page_id) ==
    /\ ~aborted
    /\ page_id \in 0..(next_page_id_ - 1)
    /\ IF page_id \in DOMAIN page_table_
       THEN LET frame_id == page_table_[page_id]
            IN  /\ pages_[frame_id].pin_count_ < MaxPin
                /\ replacer_.current_timestamp_ < MaxTimestamp
                /\ pages_' = [pages_ EXCEPT ![frame_id] = PinAgain(@)]
                /\ replacer_' = SetEvictable(RecordAccess(replacer_, frame_id), frame_id, FALSE)
                /\ UNCHANGED <<pool_size_, page_table_, free_list_, next_page_id_, disk, aborted>>
                /\ Observe([NoOp EXCEPT !.op = "FetchPage", !.page_id = page_id, !.ok = TRUE,
                                        !.path = "hit", !.frame_id = frame_id])
       ELSE IF free_list_ # <<>>
       THEN FetchPgInstall(page_id, Head(free_list_), Tail(free_list_), page_table_, replacer_,
                           Disk, "free", NewPage)
       ELSE \E order \in EvictOrders(replacer_), g \in EvictGarbage(replacer_) :
              LET e == Evict(replacer_, order, g)
              IN  IF e.ok
                  THEN LET p == pages_[e.frame_id]
                       IN  FetchPgInstall(page_id, e.frame_id, free_list_,
                                          EraseVictim(page_table_, p), e.r,
                                          WriteBack(Disk, p), "evict", p)
                  ELSE /\ UNCHANGED progVars
                       /\ Observe([NoOp EXCEPT !.op = "FetchPage", !.page_id = page_id,
                                               !.path = "null"])

\* a mutant of MarkUnpinned that marks the frame on every unpin
MarkUnpinnedAlways(rep, p, frame_id) == SetEvictable(rep, frame_id, TRUE)

\* a mutant of MarkUnpinned that never marks the frame
MarkUnpinnedNever(rep, p, frame_id) == rep

\* lines 124-126 of UnpinPgImp
MarkUnpinned(rep, p, frame_id) ==
    IF p.pin_count_ = 0 THEN SetEvictable(rep, frame_id, TRUE) ELSE rep

\* a mutant of Unpin that stores the caller's flag over the frame's
UnpinOverwrites(p, is_dirty) ==
    [p EXCEPT !.pin_count_ = @ - 1, !.is_dirty_ = is_dirty]

\* lines 119-122 of UnpinPgImp
Unpin(p, is_dirty) ==
    [p EXCEPT !.pin_count_ = @ - 1, !.is_dirty_ = IF is_dirty THEN TRUE ELSE @]

UnpinPgImp(page_id, is_dirty) ==
    /\ ~aborted
    /\ IF page_id \notin DOMAIN page_table_
       THEN /\ UNCHANGED progVars
            /\ Observe([NoOp EXCEPT !.op = "UnpinPage", !.page_id = page_id,
                                    !.is_dirty = is_dirty, !.path = "absent"])
       ELSE LET frame_id == page_table_[page_id]
                unpinned == pages_[frame_id]
            IN  IF unpinned.pin_count_ <= 0
                THEN /\ UNCHANGED progVars
                     /\ Observe([NoOp EXCEPT !.op = "UnpinPage", !.page_id = page_id,
                                             !.is_dirty = is_dirty, !.path = "unpinned",
                                             !.frame_id = frame_id])
                ELSE LET p == Unpin(unpinned, is_dirty)
                     IN  /\ pages_' = [pages_ EXCEPT ![frame_id] = p]
                         /\ replacer_' = MarkUnpinned(replacer_, p, frame_id)
                         /\ UNCHANGED <<pool_size_, page_table_, free_list_, next_page_id_,
                                        disk, aborted>>
                         /\ Observe([NoOp EXCEPT !.op = "UnpinPage", !.page_id = page_id,
                                                 !.is_dirty = is_dirty, !.ok = TRUE,
                                                 !.path = "done", !.frame_id = frame_id])

\* a mutant of FlushFrame that clears the dirty flag and writes nothing
FlushFrameNoWrite(d, p) == [page |-> [p EXCEPT !.is_dirty_ = FALSE], disk |-> d]

\* lines 145-146 of FlushPgImp, 156-157 of FlushAllPgsImp: [page, disk]
FlushFrame(d, p) ==
    [page |-> [p EXCEPT !.is_dirty_ = FALSE], disk |-> WritePage(d, p.page_id_, p.data_)]

FlushPgImp(page_id) ==
    /\ ~aborted
    /\ IF page_id = INVALID_PAGE_ID \/ page_id \notin DOMAIN page_table_
       THEN /\ UNCHANGED progVars
            /\ Observe([NoOp EXCEPT !.op = "FlushPage", !.page_id = page_id, !.path = "absent"])
       ELSE LET frame_id == page_table_[page_id]
                r == FlushFrame(Disk, pages_[frame_id])
            IN  /\ pages_' = [pages_ EXCEPT ![frame_id] = r.page]
                /\ disk' = r.disk.content
                /\ UNCHANGED <<pool_size_, page_table_, free_list_, next_page_id_, replacer_,
                               aborted>>
                /\ Observe([NoOp EXCEPT !.op = "FlushPage", !.page_id = page_id, !.ok = TRUE,
                                        !.path = "done", !.frame_id = frame_id,
                                        !.writes = r.disk.log])

\* the loop of FlushAllPgsImp over the page table's entries in iteration order
RECURSIVE FlushAllScan(_, _, _, _)
FlushAllScan(order, i, pgs, d) ==
    IF i > Len(order) THEN [pages |-> pgs, disk |-> d]
    ELSE LET frame_id == page_table_[order[i]]
             r == FlushFrame(d, pgs[frame_id])
         IN  FlushAllScan(order, i + 1, [pgs EXCEPT ![frame_id] = r.page], r.disk)

FlushAllPgsImp ==
    /\ ~aborted
    /\ \E order \in IterationOrders(DOMAIN page_table_) :
         LET r == FlushAllScan(order, 1, pages_, Disk)
         IN  /\ pages_' = r.pages
             /\ disk' = r.disk.content
             /\ UNCHANGED <<pool_size_, page_table_, free_list_, next_page_id_, replacer_,
                            aborted>>
             /\ Observe([NoOp EXCEPT !.op = "FlushAllPages", !.ok = TRUE, !.path = "done",
                                     !.writes = r.disk.log])

\* a mutant of ClearPage that leaves the page id in the frame
ClearPageKeepsId(p) == [ResetMemory(p) EXCEPT !.is_dirty_ = FALSE]

\* lines 178-180 of DeletePgImp
ClearPage(p) == [ResetMemory(p) EXCEPT !.is_dirty_ = FALSE, !.page_id_ = INVALID_PAGE_ID]

\* a mutant of Release that puts the frame on the free list twice
ReleaseTwice(free, frame_id) == Append(Append(free, frame_id), frame_id)

\* line 175 of DeletePgImp
Release(free, frame_id) == Append(free, frame_id)

\* lines 175-183 of DeletePgImp
DeletePgDone(page_id, frame_id, delete_page) ==
    /\ free_list_' = Release(free_list_, frame_id)
    /\ page_table_' = MapErase(page_table_, page_id)
    /\ replacer_' = Remove(replacer_, frame_id)
    /\ pages_' = [pages_ EXCEPT ![frame_id] = ClearPage(delete_page)]
    /\ UNCHANGED <<pool_size_, next_page_id_, disk, aborted>>
    /\ Observe([NoOp EXCEPT !.op = "DeletePage", !.page_id = page_id, !.ok = TRUE,
                            !.path = "deleted", !.frame_id = frame_id,
                            !.victim = delete_page])

\* lines 175-177 of DeletePgImp when a BUSTUB_ASSERT of Remove fails
DeletePgAbort(page_id, frame_id) ==
    /\ aborted' = TRUE
    /\ free_list_' = Release(free_list_, frame_id)
    /\ page_table_' = MapErase(page_table_, page_id)
    /\ UNCHANGED <<pool_size_, pages_, next_page_id_, replacer_, disk>>
    /\ Observe([NoOp EXCEPT !.op = "DeletePage", !.page_id = page_id, !.path = "abort",
                            !.frame_id = frame_id])

\* a failed assertion ends the process, or is compiled out and Remove goes on
DeletePgImp(page_id) ==
    /\ ~aborted
    /\ IF page_id \notin DOMAIN page_table_
       THEN /\ UNCHANGED progVars
            /\ Observe([NoOp EXCEPT !.op = "DeletePage", !.page_id = page_id, !.ok = TRUE,
                                    !.path = "absent"])
       ELSE LET frame_id == page_table_[page_id]
                delete_page == pages_[frame_id]
            IN  IF delete_page.pin_count_ > 0
                THEN /\ UNCHANGED progVars
                     /\ Observe([NoOp EXCEPT !.op = "DeletePage", !.page_id = page_id,
                                             !.path = "pinned", !.frame_id = frame_id])
                ELSE IF RemoveAsserts(replacer_, frame_id)
                THEN DeletePgDone(page_id, frame_id, delete_page)
                ELSE \/ DeletePgAbort(page_id, frame_id)
                     \/ DeletePgDone(page_id, frame_id, delete_page)

\* the holder of a handle returned by NewPage/FetchPage writes the frame's bytes
Write(frame_id, data) ==
    /\ ~aborted
    /\ pages_[frame_id].pin_count_ > 0
    /\ pages_[frame_id].data_ # data
    /\ pages_' = [pages_ EXCEPT ![frame_id].data_ = data]
    /\ UNCHANGED <<pool_size_, page_table_, free_list_, next_page_id_, replacer_, disk, aborted>>
    /\ Observe([NoOp EXCEPT !.op = "Write", !.page_id = pages_[frame_id].page_id_,
                            !.ok = TRUE, !.path = "done", !.frame_id = frame_id])

Next ==
    \/ NewPgImp /\ Alone
    \/ \E page_id \in PageIds : FetchPgImp(page_id) /\ Alone
    \/ \E page_id \in PageIds, is_dirty \in BOOLEAN : UnpinPgImp(page_id, is_dirty) /\ Alone
    \/ \E page_id \in PageIds : FlushPgImp(page_id) /\ Alone
    \/ FlushAllPgsImp /\ Alone
    \/ \E page_id \in PageIds : DeletePgImp(page_id) /\ Alone

\* the manager's operations; no client writes a page, all bytes stay zero
Init == Constructed /\ watch = {}
Spec == Init /\ [][Next]_vars

\* the manager's operations and clients that write the pages they hold
NextData ==
    \/ Next
    \/ \E frame_id \in Frames, data \in DataValues : Write(frame_id, data) /\ Alone
InitDirty == Constructed /\ watch = {"lostDirty"}
SpecDirty == InitDirty /\ [][NextData]_vars
InitSaved == Constructed /\ watch = {"saved"}
SpecSaved == InitSaved /\ [][NextData]_vars

\* ---------------------------------------------------- the replacer, alone
ReplacerObserve(l) ==
    /\ last' = l
    /\ UNCHANGED <<pool_size_, pages_, page_table_, free_list_, next_page_id_, disk,
                   pins, lostDirty, saved, minted, latch_, replacer_latch_, threads, watch>>

ReplacerEvict ==
    /\ ~aborted
    /\ \E order \in EvictOrders(replacer_), g \in EvictGarbage(replacer_) :
         LET e == Evict(replacer_, order, g)
         IN  /\ replacer_' = e.r
             /\ UNCHANGED aborted
             /\ ReplacerObserve([NoOp EXCEPT !.op = "Evict", !.ok = e.ok,
                                             !.frame_id = e.frame_id])

ReplacerRecordAccess(frame_id) ==
    /\ ~aborted
    /\ replacer_.current_timestamp_ < MaxTimestamp
    /\ replacer_' = RecordAccess(replacer_, frame_id)
    /\ UNCHANGED aborted
    /\ ReplacerObserve([NoOp EXCEPT !.op = "RecordAccess", !.ok = TRUE, !.frame_id = frame_id])

ReplacerSetEvictable(frame_id, set_evictable) ==
    /\ ~aborted
    /\ replacer_' = SetEvictable(replacer_, frame_id, set_evictable)
    /\ UNCHANGED aborted
    /\ ReplacerObserve([NoOp EXCEPT !.op = "SetEvictable", !.ok = TRUE, !.frame_id = frame_id,
                                    !.is_dirty = set_evictable])

ReplacerRemove(frame_id) ==
    /\ ~aborted
    /\ IF RemoveAsserts(replacer_, frame_id)
       THEN /\ replacer_' = Remove(replacer_, frame_id)
            /\ UNCHANGED aborted
            /\ ReplacerObserve([NoOp EXCEPT !.op = "Remove", !.ok = TRUE, !.frame_id = frame_id])
       ELSE \/ /\ aborted' = TRUE
               /\ UNCHANGED replacer_
               /\ ReplacerObserve([NoOp EXCEPT !.op = "Remove", !.path = "abort",
                                               !.frame_id = frame_id])
            \/ /\ replacer_.curr_size_ <= MaxPoolSize
               /\ replacer_' = Remove(replacer_, frame_id)
               /\ UNCHANGED aborted
               /\ ReplacerObserve([NoOp EXCEPT !.op = "Remove", !.path = "unchecked",
                                               !.frame_id = frame_id])

NextReplacer ==
    \/ ReplacerEvict
    \/ \E frame_id \in Frames : ReplacerRecordAccess(frame_id)
    \/ \E frame_id \in Frames, set_evictable \in BOOLEAN :
         ReplacerSetEvictable(frame_id, set_evictable)
    \/ \E frame_id \in Frames : ReplacerRemove(frame_id)

SpecReplacer == Init /\ [][NextReplacer]_vars

\* --------------------------------------------------------- client threads
\* Each thread is between operations ("idle"), at the lock_guard of an
\* operation it has called ("lock"), holds latch_ with the body still to run
\* ("locked"), or is inside NewPgImp/FetchPgImp:
\* within replacer_->Evict holding the replacer's latch ("evict"), with the
\* victim's frame before its write-back ("victim"), or with a frame in hand
\* before the page is installed ("install").  The arguments play no part
\* before the latch is held, so they are drawn when the body starts.

\* the shared state the latch guards
State ==
    [pages_ |-> pages_, page_table_ |-> page_table_, free_list_ |-> free_list_,
     next_page_id_ |-> next_page_id_, replacer_ |-> replacer_, disk |-> disk]

Holds(t, pc) == threads[t].pc = pc /\ latch_ = t

\* the operation's return: ~lock_guard
Return(t) ==
    /\ latch_' = Unlock(t)
    /\ threads' = [threads EXCEPT ![t] = AtCall]

\* a client thread calls an operation of the manager
Call(t) ==
    /\ ~aborted
    /\ threads[t].pc = "idle"
    /\ threads' = [threads EXCEPT ![t].pc = "lock"]
    /\ UNCHANGED <<progVars, last, pins, lostDirty, saved, minted, latch_, replacer_latch_,
                   watch>>

\* lines 27, 60, 104, 132, 152, 162: lock_guard<std::mutex> lock(latch_)
Lock(t) ==
    /\ ~aborted
    /\ threads[t].pc = "lock"
    /\ LatchFree(latch_)
    /\ latch_' = t
    /\ threads' = [threads EXCEPT ![t].pc = "locked", ![t].snap = State]
    /\ UNCHANGED <<progVars, last, pins, lostDirty, saved, minted, replacer_latch_, watch>>

\* lines 32-36 of NewPgImp, 75-79 of FetchPgImp on a miss: a frame from the free
\* list, or the call of replacer_->Evict, which takes the replacer's latch
TakeFrame(t, op, page_id) ==
    /\ Holds(t, "locked")
    /\ \/ op = "NewPage" /\ page_id = INVALID_PAGE_ID
       \/ /\ op = "FetchPage"
          /\ page_id \in 0..(next_page_id_ - 1)
          /\ page_id \notin DOMAIN page_table_
    /\ (free_list_ # <<>> \/ \E f \in DOMAIN replacer_.frame_table_ :
                               replacer_.frame_table_[f].evictable)
         => /\ replacer_.current_timestamp_ < MaxTimestamp
            /\ op = "NewPage" => next_page_id_ <= MaxPageId
    /\ IF free_list_ # <<>>
       THEN /\ free_list_' = Tail(free_list_)
            /\ threads' = [threads EXCEPT ![t].pc = "install", ![t].op = op,
                                          ![t].page_id = page_id, ![t].path = "free",
                                          ![t].frame_id = Head(free_list_)]
            /\ UNCHANGED replacer_latch_
       ELSE /\ LatchFree(replacer_latch_)
            /\ replacer_latch_' = t
            /\ threads' = [threads EXCEPT ![t].pc = "evict", ![t].op = op,
                                          ![t].page_id = page_id]
            /\ UNCHANGED free_list_
    /\ UNCHANGED <<pool_size_, pages_, page_table_, next_page_id_, replacer_, disk, aborted,
                   last, pins, lostDirty, saved, minted, latch_, watch>>

\* Evict under the replacer's latch, and lines 42-43, 87-88 when it finds no frame
EvictFrame(t) ==
    /\ Holds(t, "evict")
    /\ replacer_latch_ = t
    /\ replacer_latch_' = Unlock(t)
    /\ \E order \in EvictOrders(replacer_), g \in EvictGarbage(replacer_) :
         LET e == Evict(replacer_, order, g)
         IN  IF e.ok
             THEN /\ replacer_' = e.r
                  /\ threads' = [threads EXCEPT ![t].pc = "victim", ![t].frame_id = e.frame_id]
                  /\ UNCHANGED <<pool_size_, pages_, page_table_, free_list_, next_page_id_,
                                 disk, aborted, last, pins, lostDirty, saved, minted, latch_,
                                 watch>>
             ELSE /\ UNCHANGED progVars
                  /\ Observe([NoOp EXCEPT !.op = threads[t].op, !.page_id = threads[t].page_id,
                                          !.path = "null"])
                  /\ Return(t)

\* lines 37-41 of NewPgImp, 80-85 of FetchPgImp
WriteVictim(t) ==
    /\ Holds(t, "victim")
    /\ LET p == pages_[threads[t].frame_id]
           d == WriteBack(Disk, p)
       IN  /\ disk' = d.content
           /\ page_table_' = EraseVictim(page_table_, p)
           /\ threads' = [threads EXCEPT ![t].pc = "install", ![t].path = "evict",
                                         ![t].writes = d.log]
    /\ UNCHANGED <<pool_size_, pages_, free_list_, next_page_id_, replacer_, aborted,
                   last, pins, lostDirty, saved, minted, latch_, replacer_latch_, watch>>

\* lines 46-56 of NewPgImp, 91-100 of FetchPgImp; RecordAccess and SetEvictable
\* take and release the replacer's latch
InstallPage(t) ==
    /\ Holds(t, "install")
    /\ LatchFree(replacer_latch_)
    /\ LET l == threads[t]
           d == [content |-> disk, log |-> l.writes]
           victim == IF l.path = "evict" THEN l.snap.pages_[l.frame_id] ELSE NewPage
       IN  IF l.op = "NewPage"
           THEN NewPgInstall(l.frame_id, free_list_, page_table_, replacer_, d, l.path, victim)
           ELSE FetchPgInstall(l.page_id, l.frame_id, free_list_, page_table_, replacer_, d,
                               l.path, victim)
    /\ Return(t)
    /\ UNCHANGED replacer_latch_

\* an operation whose body is one step under the latch; its calls into the
\* replacer take and release the replacer's latch
RunsLocked(t) ==
    /\ Holds(t, "locked")
    /\ replacer_' # replacer_ => LatchFree(replacer_latch_)
    /\ Return(t)
    /\ UNCHANGED replacer_latch_

FetchHit(t, page_id) ==
    /\ page_id \in DOMAIN page_table_
    /\ FetchPgImp(page_id)
    /\ RunsLocked(t)

\* the steps of thread t under the latch
Body(t) ==
    \/ TakeFrame(t, "NewPage", INVALID_PAGE_ID)
    \/ \E page_id \in PageIds : TakeFrame(t, "FetchPage", page_id)
    \/ EvictFrame(t)
    \/ WriteVictim(t)
    \/ InstallPage(t)
    \/ \E page_id \in PageIds : FetchHit(t, page_id)
    \/ \E page_id \in PageIds, is_dirty \in BOOLEAN :
         UnpinPgImp(page_id, is_dirty) /\ RunsLocked(t)
    \/ \E page_id \in PageIds : FlushPgImp(page_id) /\ RunsLocked(t)
    \/ FlushAllPgsImp /\ RunsLocked(t)
    \/ \E page_id \in PageIds : DeletePgImp(page_id) /\ RunsLocked(t)

ThreadNext == \E t \in Threads : Call(t) \/ Lock(t) \/ Body(t)

InitThreads == Constructed /\ watch = {"threads"}
SpecThreads == InitThreads /\ [][ThreadNext]_vars

\* a running thread takes its next step, and a thread that keeps waiting for
\* latch_ is handed it at some release
SpecThreadsFair ==
    /\ SpecThreads
    /\ \A t \in Threads : WF_vars(Body(t)) /\ SF_vars(Lock(t))

\* ------------------------------------------------------------ the claims
Resident(f) == pages_[f].page_id_ # INVALID_PAGE_ID
AllPinned == \A f \in Frames : Resident(f) => pages_[f].pin_count_ > 0
IsEvictable(f) ==
    f \in DOMAIN replacer_.frame_table_ /\ replacer_.frame_table_[f].evictable
Count(seq, x) == Cardinality({i \in 1..Len(seq) : seq[i] = x})

\* C1: while a frame's pin count is positive no operation changes the page it
\* holds, removes that page's entry from the page table, or puts the frame on
\* the free list.
C1_PinnedFrameStays ==
    [][\A f \in Frames :
         LET p == pages_[f].page_id_
         IN  (pages_[f].pin_count_ > 0 /\ p # INVALID_PAGE_ID)
             => /\ pages_'[f].page_id_ = p
                /\ p \in DOMAIN page_table_'
                /\ page_table_'[p] = f
                /\ Count(free_list_', f) = 0]_vars

\* an eviction took another frame while this one stayed pinned
C1_Witness ==
    /\ last.path = "evict"
    /\ \E f \in Frames : f # last.frame_id /\ pages_[f].pin_count_ > 0

\* C2: when NewPage or a FetchPage miss re-binds an evicted frame, a dirty victim
\* is written once, under its old page id and with the bytes it held, and a
\* clean victim is not written at all.
C2_VictimWriteBack ==
    [][\A f \in Frames :
         LET old == pages_[f]
         IN  (old.page_id_ # INVALID_PAGE_ID /\ pages_'[f].page_id_ # INVALID_PAGE_ID
              /\ pages_'[f].page_id_ # old.page_id_)
             => IF old.is_dirty_
                THEN /\ last'.writes = << <<old.page_id_, old.data_>> >>
                     /\ disk'[old.page_id_] = old.data_
                ELSE /\ last'.writes = <<>>
                     /\ disk' = disk]_vars

\* an eviction wrote back a victim that held bytes other than zero
C2_Witness ==
    /\ last.path = "evict"
    /\ Len(last.writes) = 1
    /\ last.writes[1][2] # ZeroData

\* C3 as claimed: no frame is bound to a page after its previous page left it
\* dirty and unwritten, whichever way the frame was reclaimed.
C3_DirtyAlwaysWritten == \A f \in Frames : Resident(f) => ~lostDirty[f]

\* C3 as amended: a dirty page that leaves its frame by eviction has been
\* written with the frame's bytes; one that leaves it by DeletePage is
\* discarded, the frame goes to the free list and nothing is written.
C3_DirtyWrittenUnlessDeleted ==
    [][\A f \in Frames :
         LET old == pages_[f]
         IN  (old.page_id_ # INVALID_PAGE_ID /\ old.is_dirty_
              /\ pages_'[f].page_id_ # old.page_id_)
             => IF last'.path = "deleted"
                THEN /\ pages_'[f].page_id_ = INVALID_PAGE_ID
                     /\ Count(free_list_', f) = 1
                     /\ last'.writes = <<>>
                     /\ lostDirty'[f]
                ELSE /\ Wrote(last'.writes, old.page_id_, old.data_)
                     /\ ~lostDirty'[f]]_vars

\* one frame was reclaimed dirty through DeletePage, and an eviction wrote back
C3_Witness ==
    /\ \E f \in Frames : lostDirty[f]
    /\ last.path = "evict"
    /\ last.writes # <<>>

\* C4: every frame is on the free list once or the value of one page table
\* entry, never both and never neither.
C4_FramePartition ==
    /\ \A f \in Frames :
         Count(free_list_, f)
           + Cardinality({p \in DOMAIN page_table_ : page_table_[p] = f}) = 1
    /\ Len(free_list_) + Cardinality(DOMAIN page_table_) = pool_size_

\* DeletePage returned a frame to the free list while another page is resident
C4_Witness ==
    /\ last.path = "deleted"
    /\ Count(free_list_, last.frame_id) = 1
    /\ DOMAIN page_table_ # {}

\* C5: page_table_[p] = f exactly when frame f holds page p and p is not the
\* sentinel; a page id occupies at most one frame.
C5_TableAgreesWithFrames ==
    /\ \A p \in PageIds, f \in Frames :
         (p \in DOMAIN page_table_ /\ page_table_[p] = f)
           <=> (pages_[f].page_id_ = p /\ p # INVALID_PAGE_ID)
    /\ \A f, g \in Frames :
         (Resident(f) /\ pages_[f].page_id_ = pages_[g].page_id_) => f = g

\* an evicted frame was re-bound to another page
C5_Witness ==
    /\ last.path = "evict"
    /\ last.victim.page_id_ \notin DOMAIN page_table_
    /\ page_table_[last.page_id] = last.frame_id

\* C6: a resident frame is evictable in the replacer exactly when its pin count
\* is zero; no pinned frame is evictable.
C6_EvictableMirrorsPin ==
    /\ \A f \in Frames : Resident(f) => (IsEvictable(f) <=> pages_[f].pin_count_ = 0)
    /\ \A f \in Frames : pages_[f].pin_count_ > 0 => ~IsEvictable(f)

\* one of two holders of a page unpinned it while another page is evictable
C6_Witness ==
    /\ last.op = "UnpinPage" /\ last.ok
    /\ pages_[last.frame_id].pin_count_ = 1
    /\ \E f \in Frames : IsEvictable(f)

\* C7: NewPage and a FetchPage miss return null exactly when the free list is
\* empty and every resident frame is pinned, and then change nothing; with
\* one frame a NewPage right after a successful NewPage returns null.
C7_PoolExhaustion ==
    [][(last'.op = "NewPage"
        \/ (last'.op = "FetchPage" /\ last'.page_id \notin DOMAIN page_table_))
       => /\ ~last'.ok <=> (free_list_ = <<>> /\ AllPinned)
          /\ ~last'.ok => UNCHANGED progVars
          /\ (pool_size_ = 1 /\ last.op = "NewPage" /\ last.ok /\ last'.op = "NewPage")
               => ~last'.ok]_vars

\* the second NewPage of a pool of one frame returned null
C7_Witness ==
    /\ pool_size_ = 1
    /\ last.op = "NewPage" /\ ~last.ok
    /\ pages_[0].pin_count_ = 1
    /\ next_page_id_ = 1

\* the frames Evict chooses among, and their histories
Candidates(r) == {f \in DOMAIN r.frame_table_ : r.frame_table_[f].evictable}
History(r, f) == r.frame_table_[f].timestamp
HasK(r, f) == Len(History(r, f)) >= r.k_
KthRecent(r, f) == History(r, f)[Len(History(r, f)) - r.k_ + 1]
\* the backward k-distance of u is at most that of v
DistanceAtMost(r, u, v) ==
    IF HasK(r, v) THEN HasK(r, u) /\ KthRecent(r, u) >= KthRecent(r, v) ELSE TRUE

\* C8: Evict returns the evictable frame with the largest backward k-distance,
\* infinite below k accesses; among the frames tied with it, the one with the
\* smallest oldest retained timestamp; nothing exactly when no tracked frame is
\* evictable; the victim's record is removed and Size() drops by one.
C8_EvictVictim ==
    [][last'.op = "Evict"
       => LET r == replacer_
              v == last'.frame_id
          IN  /\ last'.ok <=> Candidates(r) # {}
              /\ ~last'.ok => replacer_' = r
              /\ last'.ok =>
                   /\ v \in Candidates(r)
                   /\ \A u \in Candidates(r) : DistanceAtMost(r, u, v)
                   /\ \A u \in Candidates(r) :
                        (DistanceAtMost(r, v, u) /\ History(r, u) # <<>>)
                          => /\ History(r, v) # <<>>
                             /\ History(r, v)[1] <= History(r, u)[1]
                   /\ replacer_'.frame_table_ = MapErase(r.frame_table_, v)
                   /\ Size(replacer_') = SizeDec(Size(r))]_vars

\* C9: after NewPage, a write of bytes B, UnpinPage(p, true) and FlushPage(p)
\* the frame is clean and the disk holds B for p; while p is neither written
\* nor deleted the disk keeps B, and a FetchPage(p) after p's eviction returns
\* a frame that holds B.
C9_RoundTrip ==
    \A p \in PageIds :
      LET t == saved[p]
          resident == p \in DOMAIN page_table_
      IN  /\ t.stage \in {"flushed", "kept", "evicted", "fetched"} => disk[p] = t.bytes
          /\ t.stage \in {"flushed", "kept", "fetched"}
               => resident /\ pages_[page_table_[p]].data_ = t.bytes
          /\ t.stage = "flushed" => ~pages_[page_table_[p]].is_dirty_
          /\ t.stage = "evicted" => ~resident

\* a page written with bytes other than zero came back from the disk
C9_Witness == \E p \in PageIds : saved[p].stage = "fetched" /\ saved[p].bytes # ZeroData

\* C10: a resident page's pin count is the number of handles returned for it
\* since it became resident minus the successful unpins, and never negative;
\* UnpinPage returns false exactly when the page is not resident or its pin
\* count is zero, and then changes nothing.
C10_PinAccounting ==
    [][/\ \A p \in DOMAIN page_table_' :
            /\ pages_'[page_table_'[p]].pin_count_ = pins'[p]
            /\ pages_'[page_table_'[p]].pin_count_ >= 0
       /\ last'.op = "UnpinPage"
            => /\ ~last'.ok <=> (\/ last'.page_id \notin DOMAIN page_table_
                                 \/ pages_[page_table_[last'.page_id]].pin_count_ = 0)
               /\ ~last'.ok => UNCHANGED progVars
               /\ last'.ok => pages_'[page_table_[last'.page_id]].pin_count_
                                = pages_[page_table_[last'.page_id]].pin_count_ - 1]_vars

\* the second of two FetchPage hits on a page was followed by the first unpin
C10_Witness ==
    /\ last.op = "UnpinPage" /\ last.ok
    /\ pins[last.page_id] = MaxPin - 1
    /\ pages_[last.frame_id].pin_count_ = MaxPin - 1
    /\ replacer_.frame_table_[last.frame_id].timestamp # <<>>

\* C11: DeletePage returns false exactly when the page is resident and pinned;
\* then, and when the page is not resident (it returns true), nothing changes;
\* on a resident unpinned page it returns true, the page leaves the page table,
\* its frame is appended to the free list with the sentinel page id, clean and
\* zeroed, and the replacer no longer tracks the frame.
C11_DeletePage ==
    [][last'.op = "DeletePage"
       => LET p == last'.page_id
              resident == p \in DOMAIN page_table_
              f == page_table_[p]
          IN  /\ ~last'.ok <=> (resident /\ pages_[f].pin_count_ > 0)
              /\ (~resident \/ pages_[f].pin_count_ > 0) => UNCHANGED progVars
              /\ (resident /\ pages_[f].pin_count_ = 0)
                   => /\ page_table_' = MapErase(page_table_, p)
                      /\ free_list_' = Append(free_list_, f)
                      /\ pages_' = [pages_ EXCEPT ![f] = NewPage]
                      /\ f \notin DOMAIN replacer_'.frame_table_
                      /\ disk' = disk]_vars

\* DeletePage freed the frame of a dirty page
C11_Witness ==
    /\ last.op = "DeletePage" /\ last.ok /\ last.path = "deleted"
    /\ last.victim.is_dirty_
    /\ free_list_[Len(free_list_)] = last.frame_id
    /\ last.frame_id \notin DOMAIN replacer_.frame_table_

\* C12: FlushPage on a resident page other than the sentinel writes the frame
\* under its page id, clears dirty and returns true; on the sentinel or a page
\* not resident it returns false, changes nothing and writes nothing;
\* FlushAllPages writes every resident page once and clears every dirty flag;
\* neither changes a pin count, the page table, the free list or the replacer.
C12_FlushEffects ==
    [][/\ last'.op = "FlushPage"
            => LET p == last'.page_id
                   resident == p # INVALID_PAGE_ID /\ p \in DOMAIN page_table_
                   f == page_table_[p]
               IN  /\ last'.ok <=> resident
                   /\ ~resident => (UNCHANGED progVars /\ last'.writes = <<>>)
                   /\ resident
                        => /\ pages_' = [pages_ EXCEPT ![f].is_dirty_ = FALSE]
                           /\ last'.writes = << <<p, pages_[f].data_>> >>
                           /\ disk' = [disk EXCEPT ![p] = pages_[f].data_]
       /\ last'.op = "FlushAllPages"
            => /\ pages_' = [f \in Frames |->
                               IF pages_[f].page_id_ \in DOMAIN page_table_
                               THEN [pages_[f] EXCEPT !.is_dirty_ = FALSE] ELSE pages_[f]]
               /\ Len(last'.writes) = Cardinality(DOMAIN page_table_)
               /\ \A q \in DOMAIN page_table_ :
                    /\ Wrote(last'.writes, q, pages_[page_table_[q]].data_)
                    /\ disk'[q] = pages_[page_table_[q]].data_
               /\ \A q \in PageIds \ DOMAIN page_table_ : disk'[q] = disk[q]
       /\ last'.op \in {"FlushPage", "FlushAllPages"}
            => /\ UNCHANGED <<page_table_, free_list_, replacer_, next_page_id_>>
               /\ \A f \in Frames : pages_'[f].pin_count_ = pages_[f].pin_count_]_vars

\* FlushAllPages wrote two resident pages, one pinned and one evictable
C12_Witness ==
    /\ last.op = "FlushAllPages"
    /\ Len(last.writes) = 2
    /\ \E f, g \in Frames : pages_[f].pin_count_ > 0 /\ IsEvictable(g)
    /\ Size(replacer_) = 1

\* C13: a successful UnpinPage(p, is_dirty) leaves the frame's dirty flag at
\* (old flag or is_dirty); the dirty flag of a page that stays resident goes
\* from true to false only in FlushPage or FlushAllPages.
C13_DirtyLatches ==
    [][/\ (last'.op = "UnpinPage" /\ last'.ok)
            => LET f == page_table_[last'.page_id]
               IN  pages_'[f].is_dirty_ = (pages_[f].is_dirty_ \/ last'.is_dirty)
       /\ \A f \in Frames :
            (/\ Resident(f) /\ pages_[f].is_dirty_
             /\ pages_'[f].page_id_ = pages_[f].page_id_
             /\ ~pages_'[f].is_dirty_)
              => last'.op \in {"FlushPage", "FlushAllPages"}]_vars

\* the last of several holders unpinned clean a page an earlier one left dirty
C13_Witness ==
    /\ last.op = "UnpinPage" /\ last.ok /\ ~last.is_dirty
    /\ pages_[last.frame_id].is_dirty_
    /\ pages_[last.frame_id].pin_count_ = 0
    /\ pins[last.page_id] = 0

\* C15: every page id NewPage returns is greater than every id it returned
\* before, also after DeletePage of an earlier id; no id is returned twice.
C15_MintedIncreasing ==
    /\ \A i, j \in 1..Len(minted) : i < j => minted[i] < minted[j]
    /\ \A i \in 1..Len(minted) : minted[i] < next_page_id_

\* the only frame of a pool was freed by DeletePage and NewPage minted again
C15_Witness ==
    /\ pool_size_ = 1
    /\ last.op = "NewPage" /\ last.ok /\ last.path = "free"
    /\ Len(minted) = 2

\* the resident frames no caller holds
Unpinned == {f \in Frames : Resident(f) /\ pages_[f].pin_count_ = 0}

\* C16: Size() is the number of tracked frames whose evictable flag is set,
\* and that is the number of resident frames with pin count zero.
C16_SizeMatches ==
    /\ Size(replacer_) = Cardinality(Candidates(replacer_))
    /\ Size(replacer_) = Cardinality(Unpinned)

\* an eviction took one of two evictable frames
C16_Witness ==
    /\ last.path = "evict"
    /\ Size(replacer_) = 1
    /\ Cardinality(Unpinned) = 1

\* C17: the frames with a record in the replacer are the values of the page
\* table; a frame on the free list has no record; the record of a frame
\* reclaimed by eviction holds only the access of the NewPage or FetchPage
\* that reused it.
C17_TrackedAreResident ==
    /\ [](/\ DOMAIN replacer_.frame_table_ = {page_table_[p] : p \in DOMAIN page_table_}
          /\ \A i \in 1..Len(free_list_) : free_list_[i] \notin DOMAIN replacer_.frame_table_)
    /\ [][last'.path = "evict"
          => /\ last'.frame_id \in DOMAIN replacer_.frame_table_
             /\ History(replacer_', last'.frame_id) = <<replacer_.current_timestamp_>>]_vars

\* with k = 2 a frame with two accesses was evicted and reused
C17_Witness ==
    /\ last.path = "evict"
    /\ replacer_.k_ = 2
    /\ Len(History(replacer_, last.frame_id)) = 1
    /\ free_list_ = <<>>

\* C19: whenever DeletePage calls Remove the frame id is below the replacer's
\* capacity and the frame's record is tracked and evictable; no BUSTUB_ASSERT
\* of Remove fails.
C19_RemoveAsserts ==
    /\ []~aborted
    /\ [][(last'.op = "DeletePage" /\ last'.path # "absent" /\ last'.path # "pinned")
          => LET f == page_table_[last'.page_id]
             IN  /\ f < replacer_.replacer_size_
                 /\ f \in DOMAIN replacer_.frame_table_
                 /\ replacer_.frame_table_[f].evictable
                 /\ RemoveAsserts(replacer_, f)
                 /\ last'.path = "deleted"]_vars

\* DeletePage removed the record of the last resident page
C19_Witness ==
    /\ last.op = "DeletePage" /\ last.path = "deleted"
    /\ ~aborted
    /\ replacer_.frame_table_ = << >>
    /\ next_page_id_ > 1

\* the timestamps of a history increase from oldest to newest
Increasing(h) == \A i, j \in 1..Len(h) : i < j => h[i] < h[j]

\* C20: every record the replacer tracks holds at least one and at most k
\* timestamps, increasing from oldest to newest and all below the clock; no
\* timestamp is in two records; so Evict reads no empty history and every
\* finite backward k-distance is at least one.
C20_HistoriesWellFormed ==
    LET r == replacer_
        T == DOMAIN r.frame_table_
    IN  /\ \A f \in T :
             /\ Len(History(r, f)) >= 1
             /\ Len(History(r, f)) <= r.k_
             /\ Increasing(History(r, f))
             /\ \A i \in 1..Len(History(r, f)) : History(r, f)[i] < r.current_timestamp_
             /\ HasK(r, f) => (Distance(r, r.frame_table_[f]) >= 1
                               /\ Distance(r, r.frame_table_[f]) # SIZE_MAX)
        /\ \A f, g \in T :
             f # g => \A i \in 1..Len(History(r, f)), j \in 1..Len(History(r, g)) :
                        History(r, f)[i] # History(r, g)[j]
        /\ \A f \in Candidates(r) : History(r, f) # <<>>

\* with k = 2 one record is full, another is not, and one of them is evictable
C20_Witness ==
    /\ replacer_.k_ = 2
    /\ \E f, g \in DOMAIN replacer_.frame_table_ :
         /\ Len(History(replacer_, f)) = 2
         /\ Len(History(replacer_, g)) = 1
    /\ Candidates(replacer_) # {}

\* the result of NewPgImp or a FetchPgImp miss on frame frame_id, from state s
Installed(s, op, page_id, frame_id, free, table, rep, d) ==
    LET a == AllocatePage(s.next_page_id_)
        id == IF op = "NewPage" THEN a.page_id ELSE page_id
    IN  [pages_ |-> [s.pages_ EXCEPT ![frame_id] =
                        IF op = "NewPage" THEN InitNewPage(@, id)
                        ELSE InitFetchedPage(@, id, d)],
         page_table_ |-> MapEmplace(table, id, frame_id),
         free_list_ |-> free,
         next_page_id_ |-> IF op = "NewPage" THEN a.next_page_id_ ELSE s.next_page_id_,
         replacer_ |-> SetEvictable(RecordAccess(rep, frame_id), frame_id, FALSE),
         disk |-> d.content]

\* the states NewPgImp or a FetchPgImp miss, run alone from state s, may end in
Sequential(s, op, page_id) ==
    LET d == [content |-> s.disk, log |-> <<>>]
    IN  IF s.free_list_ # <<>>
        THEN {Installed(s, op, page_id, Head(s.free_list_), Tail(s.free_list_),
                        s.page_table_, s.replacer_, d)}
        ELSE {LET e == Evict(s.replacer_, og[1], og[2])
                  p == s.pages_[e.frame_id]
              IN  IF e.ok
                  THEN Installed(s, op, page_id, e.frame_id, s.free_list_,
                                 EraseVictim(s.page_table_, p), e.r, WriteBack(d, p))
                  ELSE s
              : og \in EvictOrders(s.replacer_) \X EvictGarbage(s.replacer_)}

Running(t) == threads[t].pc \notin {"idle", "lock"}

\* at most one thread is past its lock_guard, and it holds latch_
MutualExclusion ==
    /\ \A t \in Threads : Running(t) <=> latch_ = t
    /\ \A t, u \in Threads : (Running(t) /\ Running(u)) => t = u

\* the invariants of the data model
DataModel ==
    /\ C4_FramePartition
    /\ C5_TableAgreesWithFrames
    /\ C6_EvictableMirrorsPin
    /\ C16_SizeMatches
    /\ DOMAIN replacer_.frame_table_ = {page_table_[p] : p \in DOMAIN page_table_}
    /\ \A p \in DOMAIN page_table_ : pages_[page_table_[p]].pin_count_ = pins[p]
    /\ C15_MintedIncreasing

\* C14: with several threads calling the manager, one thread at a time is past
\* its lock_guard; the state a thread finds when it starts its body is the one
\* it locked; while it runs no other thread changes the shared state; NewPgImp
\* and a FetchPgImp miss end in a state the operation run alone would end in
\* (the other operations are one step); and whenever latch_ is free the
\* invariants of the data model hold: no page in two frames, no frame or page
\* id handed out twice.
C14_Linearizable ==
    /\ [](/\ MutualExclusion
          /\ \A t \in Threads : Holds(t, "locked") => threads[t].snap = State
          /\ latch_ = 0 => DataModel)
    /\ [][/\ \A t, u \in Threads :
               (latch_ = t /\ u # t /\ threads'[u] # threads[u])
                 => (UNCHANGED <<progVars, latch_, replacer_latch_>>
                     /\ threads'[t] = threads[t])
          /\ \A t \in Threads :
               (threads[t].pc \in {"evict", "install"} /\ threads'[t].pc = "idle")
                 => State' \in Sequential(threads[t].snap, threads[t].op,
                                          threads[t].page_id)]_vars

\* a thread is installing the page it fetched into an evicted frame while the
\* other has called an operation and waits at its lock_guard
C14_Witness ==
    \E t, u \in Threads :
       /\ threads[t].pc = "install" /\ threads[t].op = "FetchPage"
       /\ threads[t].path = "evict"
       /\ threads[u].pc = "lock"
       /\ \E f \in Frames : pages_[f].pin_count_ > 0

\* some thread that has called an operation can take a step
SomeProgress == \E t \in Threads : ENABLED (Lock(t) \/ Body(t))

\* C18: the replacer's latch is held only by the holder of the manager's, and
\* the manager's is never acquired by a thread that holds the replacer's; a
\* state with a called operation always has a thread that can step; and with
\* every running thread scheduled and the latch handed to every thread that
\* keeps waiting, every operation called returns: no thread stays in an
\* operation for ever.
C18_NoDeadlock ==
    /\ [](replacer_latch_ # 0 => latch_ = replacer_latch_)
    /\ [][\A t \in Threads : (latch_ # t /\ latch_' = t) => replacer_latch_ # t]_vars
    /\ []((\E t \in Threads : threads[t].pc # "idle") => SomeProgress)
    /\ \A t \in Threads : []<>(threads[t].pc = "idle")

\* one thread is inside Evict with both latches while the other waits for the
\* manager's
C18_Witness ==
    \E t, u \in Threads :
       /\ threads[t].pc = "evict"
       /\ replacer_latch_ = t /\ latch_ = t
       /\ threads[u].pc = "lock"

=============================================================================
